---- MODULE Spec2Model ----
(***************************************************************************)
(* Model of the STP payment-order client (src/src/stp/stp.service.ts):     *)
(* canonical string, signature, payload, PUT, response interpretation.     *)
(*                                                                         *)
(* JavaScript values are records [t, n, s]: t is the typeof tag, n the     *)
(* value of a number, s the characters of a string.  A property missing    *)
(* from an object reads as Undef, exactly as in JavaScript.  Numbers are   *)
(* integers.  Objects built key by key (the payload, the result) are       *)
(* functions whose DOMAIN is the set of keys the code assigned.            *)
(***************************************************************************)
EXTENDS Integers, Sequences, FiniteSets, TLC

VARIABLES
  svc,          \* the StpService instance: its readonly configuration fields
  llamadas,     \* per invocation of registrarOrdenPago: locals and position
  peticiones,   \* per invocation: the httpService.put requests it issued
  sOrden,       \* serialisation check: the order handed to the builders
  sFase,        \* serialisation check: "entrada" | "firmada" | "hecho"
  sCadena,      \* serialisation check: construirCadenaOriginal's output
  sPayload,     \* serialisation check: construirPayload's output
  rData,        \* interpretation check: the raw response body
  rFase,        \* interpretation check: "entrada" | "hecho"
  rResultado    \* interpretation check: procesarRespuesta's output

vars == <<svc, llamadas, peticiones, sOrden, sFase, sCadena, sPayload,
          rData, rFase, rResultado>>

-----------------------------------------------------------------------------
(* Bounds of the model *)

MaxLlamadas == 2
MaxDesvios == 1

-----------------------------------------------------------------------------
(* JavaScript values and the language operations the service relies on *)

Undef == [t |-> "undefined", n |-> 0, s |-> <<>>]
Null  == [t |-> "null", n |-> 0, s |-> <<>>]
Num(i) == [t |-> "number", n |-> i, s |-> <<>>]
Str(cs) == [t |-> "string", n |-> 0, s |-> cs]

\* x === undefined || x === null
Nullish(v) == v.t \in {"undefined", "null"}

CoalesceSoloUndefined(a, b) == IF a.t = "undefined" THEN b ELSE a

\* a ?? b
Coalesce(a, b) == IF Nullish(a) THEN b ELSE a

\* if (x): ToBoolean of a number, a string, undefined or null
Truthy(v) ==
  CASE v.t = "number" -> v.n /= 0
    [] v.t = "string" -> v.s /= <<>>
    [] OTHER -> FALSE

Digito(d) ==
  CASE d = 0 -> "0" [] d = 1 -> "1" [] d = 2 -> "2" [] d = 3 -> "3"
    [] d = 4 -> "4" [] d = 5 -> "5" [] d = 6 -> "6" [] d = 7 -> "7"
    [] d = 8 -> "8" [] d = 9 -> "9"

RECURSIVE DigitosNat(_)
DigitosNat(k) ==
  IF k < 10 THEN <<Digito(k)>>
  ELSE Append(DigitosNat(k \div 10), Digito(k % 10))

\* Number.prototype.toString for an integer
NumberToString(i) == IF i < 0 THEN <<"-">> \o DigitosNat(-i) ELSE DigitosNat(i)

\* String(x): the characters of the result
ToStringJS(v) ==
  CASE v.t = "number" -> NumberToString(v.n)
    [] v.t = "string" -> v.s
    [] v.t = "undefined" -> <<"u", "n", "d", "e", "f", "i", "n", "e", "d">>
    [] v.t = "null" -> <<"n", "u", "l", "l">>

\* String(x) as a value
StringJS(v) == Str(ToStringJS(v))

\* Array.prototype.join renders undefined and null elements as ''
ElementoJoin(v) == IF Nullish(v) THEN <<>> ELSE ToStringJS(v)

RECURSIVE JoinDesde(_, _, _)
JoinDesde(arr, sep, i) ==
  IF i > Len(arr) THEN <<>>
  ELSE sep \o ElementoJoin(arr[i]) \o JoinDesde(arr, sep, i + 1)

\* Array.prototype.join(sep)
Join(arr, sep) ==
  IF Len(arr) = 0 THEN <<>>
  ELSE ElementoJoin(arr[1]) \o JoinDesde(arr, sep, 2)

-----------------------------------------------------------------------------
(* Configuration: the constructor's reads of ConfigService *)

DefaultInstitucionOperante == 90646

Configuraciones ==
  { [baseUrl |-> "https://demo.stpmex.com:7024",
     empresa |-> e,
     privateKeyPath |-> "stp.pem",
     privateKeyPassphrase |-> Str(<<>>),
     institucionOperante |-> Num(DefaultInstitucionOperante)]
    : e \in {Str(<<>>), Str(<<"M", "O", "N">>)} }

-----------------------------------------------------------------------------
(* construirCadenaOriginal *)

CampoEmpresaSinRespaldo(this, orden) == Coalesce(orden.empresa, Str(<<>>))

\* orden.empresa ?? this.empresa
CampoEmpresa(this, orden) == Coalesce(orden.empresa, this.empresa)

CamposCadena(this, orden) ==
  << Coalesce(orden.institucionContraparte, Str(<<>>)),
     CampoEmpresa(this, orden),
     Coalesce(orden.fechaOperacion, Str(<<>>)),
     Coalesce(orden.folioOrigen, Str(<<>>)),
     Coalesce(orden.claveRastreo, Str(<<>>)),
     Coalesce(orden.institucionOperante, this.institucionOperante),
     Coalesce(orden.monto, Str(<<>>)),
     Coalesce(orden.tipoPago, Str(<<>>)),
     Coalesce(orden.tipoCuentaOrdenante, Str(<<>>)),
     Coalesce(orden.nombreOrdenante, Str(<<>>)),
     Coalesce(orden.cuentaOrdenante, Str(<<>>)),
     Coalesce(orden.rfcCurpOrdenante, Str(<<>>)),
     Coalesce(orden.tipoCuentaBeneficiario, Str(<<>>)),
     Coalesce(orden.nombreBeneficiario, Str(<<>>)),
     Coalesce(orden.cuentaBeneficiario, Str(<<>>)),
     Coalesce(orden.rfcCurpBeneficiario, Str(<<>>)),
     Coalesce(orden.emailBeneficiario, Str(<<>>)),
     Coalesce(orden.tipoCuentaBeneficiario2, Str(<<>>)),
     Coalesce(orden.nombreBeneficiario2, Str(<<>>)),
     Coalesce(orden.cuentaBeneficiario2, Str(<<>>)),
     Coalesce(orden.rfcCurpBeneficiario2, Str(<<>>)),
     Coalesce(orden.conceptoPago, Str(<<>>)),
     Coalesce(orden.conceptoPago2, Str(<<>>)),
     Coalesce(orden.claveCatUsuario1, Str(<<>>)),
     Coalesce(orden.claveCatUsuario2, Str(<<>>)),
     Coalesce(orden.clavePago, Str(<<>>)),
     Coalesce(orden.referenciaCobranza, Str(<<>>)),
     Coalesce(orden.referenciaNumerica, Str(<<>>)),
     Coalesce(orden.tipoOperacion, Str(<<>>)),
     Coalesce(orden.topologia, Str(<<>>)),
     Coalesce(orden.usuario, Str(<<>>)),
     Coalesce(orden.medioEntrega, Str(<<>>)),
     Coalesce(orden.prioridad, Str(<<>>)),
     Coalesce(orden.iva, Str(<<>>)) >>

construirCadenaOriginal(this, orden) ==
  Str(<<"|", "|">> \o Join(CamposCadena(this, orden), <<"|">>) \o <<"|", "|">>)

-----------------------------------------------------------------------------
(* generarFirma *)

\* An Error object: its message and, for an axios error that carries one,
\* the response the remote sent.
SinResponse == [t |-> "undefined", status |-> Undef, data |-> Undef]

ErrorJS(plantilla, args, response) ==
  [message |-> [plantilla |-> plantilla, args |-> args], response |-> response]

\* sign.sign(key, 'base64') over the UTF-8 bytes of the canonical string: a
\* deterministic function of the text, injective on the texts of the model.
\* llaveOk is the outcome of fs.readFileSync and of the key's parsing.
generarFirma(this, cadenaOriginal, llaveOk) ==
  IF llaveOk
  THEN [tipo |-> "return",
        valor |-> Str(<<"RSA-SHA256(">> \o cadenaOriginal.s \o <<")">>)]
  ELSE [tipo |-> "throw",
        error |-> ErrorJS("Error al generar firma electrónica: ${error.message}",
                          <<"ENOENT">>, SinResponse)]

-----------------------------------------------------------------------------
(* construirPayload *)

\* "Campos obligatorios", "Campos de geolocalización" and "Firma"
PayloadObligatorio(this, orden, firma) ==
  [ claveRastreo |-> orden.claveRastreo,
    conceptoPago |-> orden.conceptoPago,
    cuentaOrdenante |-> orden.cuentaOrdenante,
    cuentaBeneficiario |-> orden.cuentaBeneficiario,
    empresa |-> Coalesce(orden.empresa, this.empresa),
    institucionContraparte |-> StringJS(orden.institucionContraparte),
    institucionOperante |->
      StringJS(Coalesce(orden.institucionOperante, this.institucionOperante)),
    monto |-> StringJS(orden.monto),
    nombreBeneficiario |-> orden.nombreBeneficiario,
    nombreOrdenante |-> orden.nombreOrdenante,
    referenciaNumerica |-> StringJS(orden.referenciaNumerica),
    rfcCurpBeneficiario |-> orden.rfcCurpBeneficiario,
    rfcCurpOrdenante |-> orden.rfcCurpOrdenante,
    tipoCuentaBeneficiario |-> StringJS(orden.tipoCuentaBeneficiario),
    tipoCuentaOrdenante |-> StringJS(orden.tipoCuentaOrdenante),
    tipoPago |-> StringJS(orden.tipoPago),
    latitud |-> orden.latitud,
    longitud |-> orden.longitud,
    firma |-> firma ]

\* "Campos opcionales": the key each `if` line assigns
OpcionalesPayload ==
  { "fechaOperacion", "folioOrigen", "emailBeneficiario",
    "tipoCuentaBeneficiario2", "nombreBeneficiario2", "cuentaBeneficiario2",
    "rfcCurpBeneficiario2", "conceptoPago2", "claveCatUsuario1",
    "claveCatUsuario2", "clavePago", "referenciaCobranza", "tipoOperacion",
    "topologia", "usuario", "medioEntrega", "prioridad", "iva" }

\* the optional keys whose assignment wraps the value in String(...)
OpcionalesConString ==
  { "fechaOperacion", "tipoCuentaBeneficiario2", "claveCatUsuario1",
    "claveCatUsuario2", "medioEntrega", "prioridad", "iva" }

ValorOpcional(orden, k) ==
  IF k \in OpcionalesConString THEN StringJS(orden[k]) ELSE orden[k]

IncluirOpcionalNoNulo(v) == ~Nullish(v)

\* the test of each `if (orden.x)` line
IncluirOpcional(v) == Truthy(v)

construirPayload(this, orden, firma) ==
  LET base == PayloadObligatorio(this, orden, firma)
      opc == {k \in OpcionalesPayload : IncluirOpcional(orden[k])}
  IN [k \in (DOMAIN base) \cup opc |->
        IF k \in opc THEN ValorOpcional(orden, k) ELSE base[k]]

-----------------------------------------------------------------------------
(* procesarRespuesta and obtenerMensajeError *)

Mensaje(plantilla, args) == [plantilla |-> plantilla, args |-> args]

errores ==
  [ c \in 0..10 |->
      CASE c = 0 -> "Error general"
        [] c = 1 -> "Firma electrónica inválida"
        [] c = 2 -> "Empresa no válida"
        [] c = 3 -> "Institución contraparte no válida"
        [] c = 4 -> "Cuenta ordenante no válida"
        [] c = 5 -> "Cuenta beneficiario no válida"
        [] c = 6 -> "Tipo de cuenta no válido"
        [] c = 7 -> "Monto no válido"
        [] c = 8 -> "Fecha de operación no válida"
        [] c = 9 -> "Clave de rastreo duplicada"
        [] c = 10 -> "RFC/CURP no válido" ]

obtenerMensajeError(codigo) ==
  IF codigo.n \in DOMAIN errores
  THEN Mensaje(errores[codigo.n], <<>>)
  ELSE Mensaje("Error desconocido (código: ${codigo})", <<ToStringJS(codigo)>>)

\* A response body: undefined (no body), null, or an object with an optional
\* resultado (itself undefined, null or an object with an optional id) and an
\* optional top-level id.
Cuerpo(t, rt, rid, id) ==
  [t |-> t, resultado |-> [t |-> rt, id |-> rid], id |-> id]

\* data?.resultado?.id
ResultadoId(data) ==
  IF data.t /= "object" THEN Undef
  ELSE IF data.resultado.t /= "object" THEN Undef
  ELSE data.resultado.id

\* data?.id
TopId(data) == IF data.t /= "object" THEN Undef ELSE data.id

IdentificadorConO(data) ==
  IF Truthy(ResultadoId(data)) THEN ResultadoId(data) ELSE TopId(data)

\* data?.resultado?.id ?? data?.id
Identificador(data) == Coalesce(ResultadoId(data), TopId(data))

UmbralFolio == 999

procesarRespuesta(data) ==
  LET id == Identificador(data) IN
  IF id.t = "undefined" \/ id.t = "null"
  THEN [success |-> FALSE,
        message |-> Mensaje("Respuesta inválida de STP", <<>>),
        rawResponse |-> data]
  ELSE IF id.n > UmbralFolio
  THEN [success |-> TRUE,
        folioStp |-> id,
        message |-> Mensaje("Orden de pago registrada exitosamente", <<>>),
        rawResponse |-> data]
  ELSE [success |-> FALSE,
        errorCode |-> id,
        message |-> obtenerMensajeError(id),
        rawResponse |-> data]

-----------------------------------------------------------------------------
(* OrdenPagoDto: the orders handed to the service *)

CamposNumericos ==
  { "institucionContraparte", "fechaOperacion", "institucionOperante",
    "monto", "tipoPago", "tipoCuentaOrdenante", "tipoCuentaBeneficiario",
    "tipoCuentaBeneficiario2", "claveCatUsuario1", "claveCatUsuario2",
    "referenciaNumerica", "medioEntrega", "prioridad", "iva" }

CamposTexto ==
  { "empresa", "folioOrigen", "claveRastreo", "nombreOrdenante",
    "cuentaOrdenante", "rfcCurpOrdenante", "nombreBeneficiario",
    "cuentaBeneficiario", "rfcCurpBeneficiario", "emailBeneficiario",
    "nombreBeneficiario2", "cuentaBeneficiario2", "rfcCurpBeneficiario2",
    "conceptoPago", "conceptoPago2", "clavePago", "referenciaCobranza",
    "tipoOperacion", "topologia", "usuario", "longitud", "latitud" }

CamposOrden == CamposNumericos \cup CamposTexto

\* the properties the DTO marks @IsOptional()
CamposOpcionalesDto ==
  { "fechaOperacion", "folioOrigen", "emailBeneficiario",
    "tipoCuentaBeneficiario2", "nombreBeneficiario2", "cuentaBeneficiario2",
    "rfcCurpBeneficiario2", "conceptoPago2", "claveCatUsuario1",
    "claveCatUsuario2", "clavePago", "referenciaCobranza", "tipoOperacion",
    "topologia", "usuario", "medioEntrega", "prioridad", "iva" }

\* an order with every property set, each to a value of its own
OrdenCompleta ==
  [
    institucionContraparte |-> Num(97846),
    empresa |-> Str(<<"E", "M", "P">>),
    fechaOperacion |-> Num(20240115),
    folioOrigen |-> Str(<<"F", "1">>),
    claveRastreo |-> Str(<<"A", "B", "C", "1", "2", "3", "4", "5">>),
    institucionOperante |-> Num(90903),
    monto |-> Num(1500),
    tipoPago |-> Num(1),
    tipoCuentaOrdenante |-> Num(40),
    nombreOrdenante |-> Str(<<"N", "O">>),
    cuentaOrdenante |-> Str(<<"C", "O">>),
    rfcCurpOrdenante |-> Str(<<"R", "O">>),
    tipoCuentaBeneficiario |-> Num(3),
    nombreBeneficiario |-> Str(<<"N", "B">>),
    cuentaBeneficiario |-> Str(<<"C", "B">>),
    rfcCurpBeneficiario |-> Str(<<"R", "B">>),
    emailBeneficiario |-> Str(<<"a", "@", "b">>),
    tipoCuentaBeneficiario2 |-> Num(10),
    nombreBeneficiario2 |-> Str(<<"N", "2">>),
    cuentaBeneficiario2 |-> Str(<<"C", "2">>),
    rfcCurpBeneficiario2 |-> Str(<<"R", "2">>),
    conceptoPago |-> Str(<<"C", "P">>),
    conceptoPago2 |-> Str(<<"P", "2">>),
    claveCatUsuario1 |-> Num(11),
    claveCatUsuario2 |-> Num(12),
    clavePago |-> Str(<<"K", "P">>),
    referenciaCobranza |-> Str(<<"R", "C">>),
    referenciaNumerica |-> Num(1234567),
    tipoOperacion |-> Str(<<"T", "O">>),
    topologia |-> Str(<<"T">>),
    usuario |-> Str(<<"U">>),
    medioEntrega |-> Num(2),
    prioridad |-> Num(5),
    iva |-> Num(16),
    longitud |-> Str(<<"-", "9", "9">>),
    latitud |-> Str(<<"1", "9">>) ]

\* the same order with no optional property
OrdenMinima ==
  [k \in CamposOrden |->
     IF k \in CamposOpcionalesDto THEN Undef ELSE OrdenCompleta[k]]

\* the values one property is varied over
Alternativas(k) ==
  IF k \in CamposNumericos
  THEN <<Undef, Null, Num(0), Num(-3)>>
  ELSE <<Undef, Null, Str(<<>>), Str(<<"x", "|", "y">>)>>

\* the sets of at most d properties
RECURSIVE Subconjuntos(_, _)
Subconjuntos(C, d) ==
  IF d = 0 THEN {{}}
  ELSE Subconjuntos(C, d - 1)
       \cup { p \cup {k} : p \in Subconjuntos(C, d - 1), k \in C }

\* order b with the properties ks set to the alternatives alt picks
Desviar(b, ks, alt) ==
  [k \in CamposOrden |-> IF k \in ks THEN Alternativas(k)[alt[k]] ELSE b[k]]

Letras ==
  { "A", "B", "C", "D", "E", "F", "G", "H", "I", "J", "K", "L", "M", "N", "O",
    "P", "Q", "R", "S", "T", "U", "V", "W", "X", "Y", "Z", "a", "b", "c", "d",
    "e", "f", "g", "h", "i", "j", "k", "l", "m", "n", "o", "p", "q", "r", "s",
    "t", "u", "v", "w", "x", "y", "z" }

Cifras == { "0", "1", "2", "3", "4", "5", "6", "7", "8", "9" }

\* @MaxLength of each string property that has one
LongitudMaxima(k) ==
  CASE k = "empresa" -> 15
    [] k = "folioOrigen" -> 50
    [] k \in {"claveRastreo", "longitud", "latitud"} -> 30
    [] k \in {"nombreOrdenante", "nombreBeneficiario", "nombreBeneficiario2",
              "conceptoPago", "conceptoPago2"} -> 40
    [] k \in {"cuentaOrdenante", "cuentaBeneficiario", "cuentaBeneficiario2"} -> 20
    [] k \in {"rfcCurpOrdenante", "rfcCurpBeneficiario", "rfcCurpBeneficiario2"} -> 18
    [] OTHER -> -1

\* the class-validator decorators of one property
PropiedadValida(o, k) ==
  IF Nullish(o[k]) THEN k \in CamposOpcionalesDto
  ELSE /\ k \in CamposNumericos => o[k].t = "number"
       /\ k \in CamposTexto =>
            /\ o[k].t = "string"
            /\ k \notin CamposOpcionalesDto => o[k].s /= <<>>
            /\ LongitudMaxima(k) >= 0 => Len(o[k].s) <= LongitudMaxima(k)
       /\ k = "claveRastreo" =>
            /\ Len(o[k].s) >= 8
            /\ \A i \in 1..Len(o[k].s) : o[k].s[i] \in Letras \cup Cifras

\* what the controller's ValidationPipe lets through
Validada(o) == \A k \in CamposOrden : PropiedadValida(o, k)

-----------------------------------------------------------------------------
(* The raw response bodies *)

Identificadores ==
  {Undef, Null} \cup
  { Num(i) : i \in {-1, 0, 1, 2, 3, 4, 5, 6, 7, 8, 9, 10, 11, 998, 999, 1000,
                    1001, 123456789} }

Cuerpos ==
  {Cuerpo("undefined", "undefined", Undef, Undef),
   Cuerpo("null", "undefined", Undef, Undef)}
  \cup { Cuerpo("object", rt, Undef, id) :
           rt \in {"undefined", "null"}, id \in Identificadores }
  \cup { Cuerpo("object", "object", rid, id) :
           rid \in Identificadores, id \in Identificadores }

-----------------------------------------------------------------------------
(* registrarOrdenPago *)

\* obj.k = v on an object literal
Asignar(obj, k, v) ==
  [x \in (DOMAIN obj) \cup {k} |-> IF x = k THEN v ELSE obj[x]]

ManejarErrorSinCodigo(error) ==
  IF error.response.t = "object"
  THEN [tipo |-> "return",
        valor |-> [success |-> FALSE,
                   message |-> Mensaje("Error de STP: ${JSON.stringify(error.response.data)}",
                                       <<error.response.data>>),
                   rawResponse |-> error.response.data]]
  ELSE [tipo |-> "return",
        valor |-> [success |-> FALSE,
                   message |-> Mensaje("Error al conectar con STP: ${error.message}",
                                       <<error.message>>)]]

ManejarErrorRelanza(error) ==
  IF error.response.t = "object"
  THEN [tipo |-> "return",
        valor |-> [success |-> FALSE,
                   errorCode |-> error.response.status,
                   message |-> Mensaje("Error de STP: ${JSON.stringify(error.response.data)}",
                                       <<error.response.data>>),
                   rawResponse |-> error.response.data]]
  ELSE [tipo |-> "throw", error |-> error]

\* the catch block
ManejarError(error) ==
  IF error.response.t = "object"
  THEN [tipo |-> "return",
        valor |-> [success |-> FALSE,
                   errorCode |-> error.response.status,
                   message |-> Mensaje("Error de STP: ${JSON.stringify(error.response.data)}",
                                       <<error.response.data>>),
                   rawResponse |-> error.response.data]]
  ELSE [tipo |-> "return",
        valor |-> [success |-> FALSE,
                   message |-> Mensaje("Error al conectar con STP: ${error.message}",
                                       <<error.message>>)]]

PeticionesHttpConReintento(this, payload) ==
  LET p == [metodo |-> "PUT",
            url |-> <<this.baseUrl, "/speiws/rest/ordenPago/registra">>,
            payload |-> payload,
            headers |-> [ContentType |-> "application/json", Encoding |-> "UTF-8"]]
  IN <<p, p>>

\* the one httpService.put of the try block
PeticionesHttp(this, payload) ==
  << [metodo |-> "PUT",
      url |-> <<this.baseUrl, "/speiws/rest/ordenPago/registra">>,
      payload |-> payload,
      headers |-> [ContentType |-> "application/json", Encoding |-> "UTF-8"]] >>

\* the try block from the payload to its await: assemble, send
TramoEnvio(this, cadenaOriginal, firma, payload) ==
  [pc |-> "await", cadenaOriginal |-> cadenaOriginal, firma |-> firma,
   payload |-> payload, envios |-> PeticionesHttp(this, payload),
   salida |-> [tipo |-> "pending"]]

\* the try block once generarFirma has returned or thrown (f)
TramoFirmado(this, orden, cadenaOriginal, f) ==
  IF f.tipo = "throw"
  THEN [pc |-> "done", cadenaOriginal |-> cadenaOriginal, firma |-> Undef,
        payload |-> <<>>, envios |-> <<>>, salida |-> ManejarError(f.error)]
  ELSE TramoEnvio(this, cadenaOriginal, f.valor,
                  construirPayload(this, orden, f.valor))

\* the try block once the canonical string is built
TramoCadena(this, orden, llaveOk, cadenaOriginal) ==
  TramoFirmado(this, orden, cadenaOriginal,
               generarFirma(this, cadenaOriginal, llaveOk))

\* the try block up to its await: build, sign, assemble, send
TramoSincrono(this, orden, llaveOk) ==
  TramoCadena(this, orden, llaveOk, construirCadenaOriginal(this, orden))

LocalesCompartidos(ll, c) ==
  IF \E d \in DOMAIN ll : d /= c /\ ll[d].pc /= "idle"
  THEN ll[CHOOSE d \in DOMAIN ll : d /= c /\ ll[d].pc /= "idle"]
  ELSE ll[c]

\* the block-scoped constants of one invocation
Locales(ll, c) == ll[c]

TramoRespuestaSinDebug(data, cadenaOriginal, firma) ==
  [tipo |-> "return", valor |-> procesarRespuesta(data)]

\* the try block after its await: interpret, add the debug fields, return
TramoRespuesta(data, cadenaOriginal, firma) ==
  LET resultado == procesarRespuesta(data) IN
  [tipo |-> "return",
   valor |-> Asignar(Asignar(resultado, "cadenaOriginal", cadenaOriginal),
                     "firma", firma)]

\* what firstValueFrom(httpService.put(...)) settles with
SinRespuestaHttp == [clase |-> "ninguna", status |-> Undef, data |-> Undef]
RespuestaHttp(clase, status, data) ==
  [clase |-> clase, status |-> status, data |-> data]

\* the AxiosError for a response outside 2xx, and for no response at all
ErrorAxios(r) ==
  IF r.clase = "error"
  THEN ErrorJS("Request failed with status code ${status}", <<ToStringJS(r.status)>>,
               [t |-> "object", status |-> r.status, data |-> r.data])
  ELSE ErrorJS("timeout of 30000ms exceeded", <<>>, SinResponse)

Llamadas == 1..MaxLlamadas

OrdenesServicio == {OrdenCompleta, OrdenMinima}

CuerposServicio ==
  { Cuerpo("undefined", "undefined", Undef, Undef),
    Cuerpo("object", "object", Num(9), Undef),
    Cuerpo("object", "object", Num(1000), Undef),
    Cuerpo("object", "undefined", Undef, Num(0)) }

EstadosError == {Num(400), Num(500)}

CuerposError ==
  { Cuerpo("undefined", "undefined", Undef, Undef),
    Cuerpo("object", "object", Num(1000), Undef) }

LlamadaInactiva ==
  [pc |-> "idle", orden |-> OrdenMinima, llaveOk |-> TRUE, cadenaOriginal |-> Undef,
   firma |-> Undef, payload |-> <<>>, respuesta |-> SinRespuestaHttp,
   salida |-> [tipo |-> "pending"]]

\* registrarOrdenPago(orden) is called and runs to its await or to its return
Invocar(c, orden, llaveOk) ==
  /\ llamadas[c].pc = "idle"
  /\ \E r \in {TramoSincrono(svc, orden, llaveOk)} :
       /\ llamadas' = [llamadas EXCEPT ![c] =
            [pc |-> r.pc, orden |-> orden, llaveOk |-> llaveOk,
             cadenaOriginal |-> r.cadenaOriginal, firma |-> r.firma,
             payload |-> r.payload, respuesta |-> SinRespuestaHttp,
             salida |-> r.salida]]
       /\ peticiones' = [peticiones EXCEPT ![c] = @ \o r.envios]
  /\ UNCHANGED <<svc, sOrden, sFase, sCadena, sPayload, rData, rFase, rResultado>>

\* the remote answers 2xx with a body
Responder(c, data) ==
  /\ llamadas[c].pc = "await"
  /\ llamadas' = [llamadas EXCEPT ![c] =
       [@ EXCEPT !.pc = "done",
                 !.respuesta = RespuestaHttp("ok", Num(200), data),
                 !.salida = TramoRespuesta(data, Locales(llamadas, c).cadenaOriginal,
                                           Locales(llamadas, c).firma)]]
  /\ UNCHANGED <<svc, peticiones, sOrden, sFase, sCadena, sPayload, rData, rFase,
                 rResultado>>

\* the remote answers outside 2xx: the awaited observable errors with a response
ResponderError(c, status, data) ==
  /\ llamadas[c].pc = "await"
  /\ LET r == RespuestaHttp("error", status, data) IN
     llamadas' = [llamadas EXCEPT ![c] =
       [@ EXCEPT !.pc = "done", !.respuesta = r,
                 !.salida = ManejarError(ErrorAxios(r))]]
  /\ UNCHANGED <<svc, peticiones, sOrden, sFase, sCadena, sPayload, rData, rFase,
                 rResultado>>

\* no response: connection refused, DNS failure, timeout
FallarConexion(c) ==
  /\ llamadas[c].pc = "await"
  /\ LET r == RespuestaHttp("sin", Undef, Undef) IN
     llamadas' = [llamadas EXCEPT ![c] =
       [@ EXCEPT !.pc = "done", !.respuesta = r,
                 !.salida = ManejarError(ErrorAxios(r))]]
  /\ UNCHANGED <<svc, peticiones, sOrden, sFase, sCadena, sPayload, rData, rFase,
                 rResultado>>

Init ==
  /\ svc \in Configuraciones
  /\ llamadas = [c \in Llamadas |-> LlamadaInactiva]
  /\ peticiones = [c \in Llamadas |-> <<>>]
  /\ sOrden = OrdenMinima /\ sFase = "inactivo" /\ sCadena = Undef /\ sPayload = <<>>
  /\ rData = Undef /\ rFase = "inactivo" /\ rResultado = <<>>

Next ==
  \/ \E c \in Llamadas, o \in OrdenesServicio, k \in BOOLEAN : Invocar(c, o, k)
  \/ \E c \in Llamadas, d \in CuerposServicio : Responder(c, d)
  \/ \E c \in Llamadas, st \in EstadosError, d \in CuerposError : ResponderError(c, st, d)
  \/ \E c \in Llamadas : FallarConexion(c)

Spec == Init /\ [][Next]_vars

-----------------------------------------------------------------------------
(* The builders applied to the two base orders with at most MaxDesvios       *)
(* properties changed                                                      *)

SConstruirCadena ==
  /\ sFase = "entrada"
  /\ sCadena' = construirCadenaOriginal(svc, sOrden)
  /\ sFase' = "cadena"
  /\ UNCHANGED <<svc, llamadas, peticiones, sOrden, sPayload, rData, rFase, rResultado>>

SConstruirPayload ==
  /\ sFase = "cadena"
  /\ sPayload' = construirPayload(svc, sOrden, generarFirma(svc, sCadena, TRUE).valor)
  /\ sFase' = "hecho"
  /\ UNCHANGED <<svc, llamadas, peticiones, sOrden, sCadena, rData, rFase, rResultado>>

InitSerial ==
  /\ svc \in Configuraciones
  /\ llamadas = [c \in Llamadas |-> LlamadaInactiva]
  /\ peticiones = [c \in Llamadas |-> <<>>]
  /\ \E b \in {OrdenCompleta, OrdenMinima} :
       \E ks \in Subconjuntos(CamposOrden, MaxDesvios) :
         \E alt \in [ks -> 1..4] : sOrden = Desviar(b, ks, alt)
  /\ sFase = "entrada" /\ sCadena = Undef /\ sPayload = <<>>
  /\ rData = Undef /\ rFase = "inactivo" /\ rResultado = <<>>

NextSerial == SConstruirCadena \/ SConstruirPayload

SpecSerial == InitSerial /\ [][NextSerial]_vars

-----------------------------------------------------------------------------
(* procesarRespuesta applied to every body of Cuerpos *)

RProcesar ==
  /\ rFase = "entrada"
  /\ rResultado' = procesarRespuesta(rData)
  /\ rFase' = "hecho"
  /\ UNCHANGED <<svc, llamadas, peticiones, sOrden, sFase, sCadena, sPayload, rData>>

InitRespuesta ==
  /\ svc \in Configuraciones
  /\ llamadas = [c \in Llamadas |-> LlamadaInactiva]
  /\ peticiones = [c \in Llamadas |-> <<>>]
  /\ sOrden = OrdenMinima /\ sFase = "inactivo" /\ sCadena = Undef /\ sPayload = <<>>
  /\ rData \in Cuerpos /\ rFase = "entrada" /\ rResultado = <<>>

NextRespuesta == RProcesar

SpecRespuesta == InitRespuesta /\ [][NextRespuesta]_vars

-----------------------------------------------------------------------------
(* Reading a canonical string back *)

\* the characters between the leading and the trailing "||"
Interior(cadena) == SubSeq(cadena.s, 3, Len(cadena.s) - 2)

ContarBarras(cs) == Cardinality({i \in 1..Len(cs) : cs[i] = "|"})

\* the first "|" of cs at or after position i, or Len(cs) + 1
SiguienteBarra(cs, i) ==
  IF \E j \in i..Len(cs) : cs[j] = "|"
  THEN CHOOSE j \in i..Len(cs) :
         cs[j] = "|" /\ \A m \in i..(j - 1) : cs[m] /= "|"
  ELSE Len(cs) + 1

RECURSIVE PartirDesde(_, _, _)
PartirDesde(cs, i, j) ==
  IF j > Len(cs) THEN <<SubSeq(cs, i, Len(cs))>>
  ELSE <<SubSeq(cs, i, j - 1)>> \o PartirDesde(cs, j + 1, SiguienteBarra(cs, j + 1))

\* cs cut at every "|"
Partir(cs) == PartirDesde(cs, 1, SiguienteBarra(cs, 1))

\* the segments of a canonical string
Segmentos(cadena) == Partir(Interior(cadena))

\* the field order of the protocol, as the specification lists it
PosicionesSpec ==
  << "institucionContraparte", "empresa", "fechaOperacion", "folioOrigen",
     "claveRastreo", "institucionOperante", "monto", "tipoPago",
     "tipoCuentaOrdenante", "nombreOrdenante", "cuentaOrdenante",
     "rfcCurpOrdenante", "tipoCuentaBeneficiario", "nombreBeneficiario",
     "cuentaBeneficiario", "rfcCurpBeneficiario", "emailBeneficiario",
     "tipoCuentaBeneficiario2", "nombreBeneficiario2", "cuentaBeneficiario2",
     "rfcCurpBeneficiario2", "conceptoPago", "conceptoPago2",
     "claveCatUsuario1", "claveCatUsuario2", "clavePago", "referenciaCobranza",
     "referenciaNumerica", "tipoOperacion", "topologia", "usuario",
     "medioEntrega", "prioridad", "iva" >>

ConRespaldo == {"empresa", "institucionOperante"}

\* the text the protocol expects for property k of the order under check:
\* the order's value, the configured fallback where one exists, else nothing
TextoEsperado(k) ==
  IF ~Nullish(sOrden[k]) THEN ToStringJS(sOrden[k])
  ELSE IF k \in ConRespaldo /\ ~Nullish(svc[k]) THEN ToStringJS(svc[k])
  ELSE <<>>

RECURSIVE UnirTextos(_, _)
UnirTextos(ks, i) ==
  IF i > Len(ks) THEN <<>>
  ELSE (IF i = 1 THEN <<>> ELSE <<"|">>) \o TextoEsperado(ks[i]) \o UnirTextos(ks, i + 1)

RECURSIVE BarrasEnTextos(_, _)
BarrasEnTextos(ks, i) ==
  IF i > Len(ks) THEN 0
  ELSE ContarBarras(TextoEsperado(ks[i])) + BarrasEnTextos(ks, i + 1)

\* no rendered value holds the separator, so cutting at "|" recovers the fields
SinBarras == BarrasEnTextos(PosicionesSpec, 1) = 0

Envuelta(cadena) ==
  /\ Len(cadena.s) >= 4
  /\ SubSeq(cadena.s, 1, 2) = <<"|", "|">>
  /\ SubSeq(cadena.s, Len(cadena.s) - 1, Len(cadena.s)) = <<"|", "|">>

-----------------------------------------------------------------------------
(* Claims about the canonical string and the payload, under SpecSerial *)

C2_AusentesVacios(segs, n) ==
  /\ Len(segs) = n
  /\ \A i \in 1..n : Nullish(sOrden[PosicionesSpec[i]]) => segs[i] = <<>>

\* C2 as stated: the canonical string starts and ends with "||", has exactly
\* 32 internal separators forming 33 fields, and every property absent from
\* the order is rendered as the empty string at its position.
C2_TreintaYTresCampos ==
  sFase /= "entrada" =>
    /\ Envuelta(sCadena)
    /\ ContarBarras(Interior(sCadena)) = 32
    /\ C2_AusentesVacios(Segmentos(sCadena), 33)

C2_AusentesVaciosORespaldo(segs, n) ==
  /\ Len(segs) = n
  /\ \A i \in 1..n :
       Nullish(sOrden[PosicionesSpec[i]]) =>
         segs[i] = (IF PosicionesSpec[i] \in ConRespaldo
                    THEN ToStringJS(svc[PosicionesSpec[i]]) ELSE <<>>)

\* C2 amended: the canonical string starts and ends with "||" and holds 34
\* fields joined by 33 separators (the "|" between the delimiters are those 33
\* plus the ones inside field values); when no value holds a "|", cutting at
\* "|" gives 34 fields, and a property absent from the order (undefined or
\* null) is the empty string at its position, never "undefined" or "null",
\* except company and operating institution, which render their fallback.
C2_TreintaYCuatroCampos ==
  sFase /= "entrada" =>
    /\ Envuelta(sCadena)
    /\ ContarBarras(Interior(sCadena)) = 33 + BarrasEnTextos(PosicionesSpec, 1)
    /\ SinBarras => C2_AusentesVaciosORespaldo(Segmentos(sCadena), 34)

\* a built string for an order with no origin folio and no VAT
C2_Testigo ==
  /\ sFase /= "entrada"
  /\ sOrden.folioOrigen = Undef
  /\ sOrden.iva = Null
  /\ ~Nullish(sOrden.claveRastreo)

\* C3: the segments appear in the fixed order of the protocol; company and
\* operating institution fall back to the configured values when the order
\* has none; no other segment has a fallback.
C3_OrdenDeSegmentos ==
  sFase /= "entrada" =>
    /\ sCadena.s = <<"|", "|">> \o UnirTextos(PosicionesSpec, 1) \o <<"|", "|">>
    /\ SinBarras =>
         Segmentos(sCadena) = [i \in 1..34 |-> TextoEsperado(PosicionesSpec[i])]

\* a built string for an order with no company, under a configured company
C3_Testigo ==
  /\ sFase /= "entrada"
  /\ sOrden.empresa = Undef
  /\ svc.empresa.s /= <<>>
  /\ ~Nullish(sOrden.iva)

\* the properties the DTO requires, and the geolocation pair
RequeridosPayload == CamposOrden \ CamposOpcionalesDto

PosicionDe(k) == CHOOSE i \in 1..Len(PosicionesSpec) : PosicionesSpec[i] = k

C6_SegmentosVacios(segs) ==
  \A k \in CamposOpcionalesDto : Nullish(sOrden[k]) => segs[PosicionDe(k)] = <<>>

\* C6: the payload always holds the signature and every required field; it
\* holds the key of an optional field only when the order has it with a truthy
\* value (absent, zero and empty optional fields have no key, and no key holds
\* null); the canonical string of the same order still has an empty segment at
\* the position of an optional field the order lacks.
C6_PayloadOpcionales ==
  sFase = "hecho" =>
    /\ "firma" \in DOMAIN sPayload
    /\ sPayload.firma = Str(<<"RSA-SHA256(">> \o sCadena.s \o <<")">>)
    /\ RequeridosPayload \subseteq DOMAIN sPayload
    /\ \A k \in RequeridosPayload : ~Nullish(sOrden[k]) => ~Nullish(sPayload[k])
    /\ \A k \in CamposOpcionalesDto :
         k \in DOMAIN sPayload => Truthy(sOrden[k]) /\ ~Nullish(sPayload[k])
    /\ SinBarras => C6_SegmentosVacios(Segmentos(sCadena))
    /\ DOMAIN sPayload \subseteq CamposOrden \cup {"firma"}

\* a payload for an order with no origin folio and a VAT of zero
C6_Testigo ==
  /\ sFase = "hecho"
  /\ sOrden.folioOrigen = Undef
  /\ "folioOrigen" \notin DOMAIN sPayload
  /\ sOrden.iva = Num(0)
  /\ "iva" \notin DOMAIN sPayload

C10_ClaveSiiSegmento(segs) ==
  \A i \in 1..Len(PosicionesSpec) :
    /\ (PosicionesSpec[i] \in DOMAIN sPayload) <=> (segs[i] /= <<>>)
    /\ PosicionesSpec[i] \in DOMAIN sPayload =>
         ToStringJS(sPayload[PosicionesSpec[i]]) = segs[i]

\* C10: for a validated order, the payload holds the key of a positioned
\* field exactly when the canonical segment at that position is not empty, and
\* the value under the key is that segment.
C10_FirmaYPayloadCoinciden ==
  (sFase = "hecho" /\ Validada(sOrden) /\ SinBarras) =>
    C10_ClaveSiiSegmento(Segmentos(sCadena))

-----------------------------------------------------------------------------
(* Claims about procesarRespuesta, under SpecRespuesta *)

\* the identifier as the protocol defines it: resultado.id, or the top-level
\* id when resultado.id is absent or null
IdDeclarado(data) ==
  IF data.t = "object" /\ data.resultado.t = "object" /\ ~Nullish(data.resultado.id)
  THEN data.resultado.id
  ELSE IF data.t = "object" THEN data.id ELSE Undef

C1_Clasificacion(id, r) ==
  /\ Nullish(id) =>
       /\ r.success = FALSE
       /\ r.message = Mensaje("Respuesta inválida de STP", <<>>)
       /\ "errorCode" \notin DOMAIN r
       /\ "folioStp" \notin DOMAIN r
  /\ (~Nullish(id) /\ id.n > 999) =>
       /\ r.success = TRUE
       /\ "folioStp" \in DOMAIN r
       /\ r.folioStp = id
       /\ "errorCode" \notin DOMAIN r
  /\ (~Nullish(id) /\ id.n <= 999) =>
       /\ r.success = FALSE
       /\ "errorCode" \in DOMAIN r
       /\ r.errorCode = id
       /\ "folioStp" \notin DOMAIN r
       /\ id.n \in 0..10 => r.message = Mensaje(errores[id.n], <<>>)
       /\ id.n = 0 => r.message.plantilla = "Error general"
       /\ id.n = 9 => r.message.plantilla = "Clave de rastreo duplicada"
       /\ id.n \notin 0..10 =>
            r.message = Mensaje("Error desconocido (código: ${codigo})",
                                <<NumberToString(id.n)>>)

\* C1: the identifier is resultado.id, or the top-level id when resultado.id is
\* absent or null; no identifier gives the invalid-response failure with no
\* error code; an identifier above 999 gives success with that folio; an
\* identifier of 999 or less (zero and negatives included) gives a failure
\* whose error code is the identifier, with the table's message for 0..10 and
\* the unknown-error message holding the code otherwise.
C1_Interpretacion ==
  rFase = "hecho" =>
    /\ C1_Clasificacion(IdDeclarado(rData), rResultado)
    /\ rResultado.rawResponse = rData
    /\ IdDeclarado(rData) = Num(999) =>
         rResultado.success = FALSE /\ rResultado.errorCode = Num(999)
    /\ IdDeclarado(rData) = Num(1000) =>
         rResultado.success = TRUE /\ rResultado.folioStp = Num(1000)

\* resultado.id is 0 while a top-level id of 1000 is also present: the error
\* branch with "Error general"
C1_Testigo ==
  /\ rFase = "hecho"
  /\ rData.t = "object" /\ rData.resultado.t = "object"
  /\ rData.resultado.id = Num(0) /\ rData.id = Num(1000)
  /\ rResultado.success = FALSE
  /\ rResultado.errorCode = Num(0)

-----------------------------------------------------------------------------
(* Claims about registrarOrdenPago, under Spec *)

Terminada(c) == llamadas[c].pc = "done"

\* the value registrarOrdenPago returned
Resultado(c) == llamadas[c].salida.valor

\* the attempt ended in the try block: a 2xx response was interpreted
PorRespuesta(c) == Terminada(c) /\ llamadas[c].respuesta.clase = "ok"

\* the attempt ended in the catch block
PorCatch(c) == Terminada(c) /\ llamadas[c].respuesta.clase /= "ok"

EcoDebug(c) ==
  /\ "cadenaOriginal" \in DOMAIN Resultado(c)
  /\ "firma" \in DOMAIN Resultado(c)
  /\ Resultado(c).cadenaOriginal = llamadas[c].cadenaOriginal
  /\ Resultado(c).firma = llamadas[c].firma
  /\ llamadas[c].cadenaOriginal.t = "string"
  /\ llamadas[c].firma.t = "string"

\* C4 as stated: every returned result carries the canonical string and the
\* signature used for the call, whatever the outcome: success, business
\* error, invalid response, non-2xx response, no response.
C4_EcoSiempre ==
  \A c \in Llamadas :
    (Terminada(c) /\ llamadas[c].llaveOk) =>
      llamadas[c].salida.tipo = "return" /\ EcoDebug(c)

\* C4 amended: a result carries the canonical string and the signature used
\* for the call exactly when a 2xx response was interpreted (success, business
\* error, invalid response); a result built for a non-2xx response, for no
\* response or for a signing failure carries neither.
C4_EcoSoloTrasRespuesta ==
  \A c \in Llamadas :
    Terminada(c) =>
      /\ llamadas[c].salida.tipo = "return"
      /\ PorRespuesta(c) => EcoDebug(c)
      /\ PorCatch(c) =>
           /\ "cadenaOriginal" \notin DOMAIN Resultado(c)
           /\ "firma" \notin DOMAIN Resultado(c)

\* one call ended on an interpreted response, another on a non-2xx response
C4_Testigo ==
  \E c, d \in Llamadas :
    /\ PorRespuesta(c) /\ EcoDebug(c)
    /\ Terminada(d) /\ llamadas[d].respuesta.clase = "error"

\* the failure comes from the remote business logic: a 2xx body whose
\* identifier is 999 or less
FalloDeNegocio(c) ==
  /\ PorRespuesta(c)
  /\ ~Nullish(IdDeclarado(llamadas[c].respuesta.data))
  /\ IdDeclarado(llamadas[c].respuesta.data).n <= 999

\* C5 as stated: the error code is present exactly when the call failed on
\* the remote business logic; it is absent on success and on every signing or
\* transport failure, a non-success HTTP status included.
C5_CodigoSoloDeNegocio ==
  \A c \in Llamadas :
    Terminada(c) =>
      /\ llamadas[c].salida.tipo = "return"
      /\ ("errorCode" \in DOMAIN Resultado(c)) <=>
           (Resultado(c).success = FALSE /\ FalloDeNegocio(c))

\* C5 amended: the error code is present exactly when the call failed on the
\* remote business logic (the code is the identifier) or the remote answered
\* with a non-success HTTP status (the code is that status); it is absent on
\* success, on an invalid response, on a signing failure and when no response
\* was received.
C5_CodigoDeNegocioOHttp ==
  \A c \in Llamadas :
    Terminada(c) =>
      /\ llamadas[c].salida.tipo = "return"
      /\ ("errorCode" \in DOMAIN Resultado(c)) <=>
           (Resultado(c).success = FALSE
              /\ (FalloDeNegocio(c) \/ llamadas[c].respuesta.clase = "error"))
      /\ FalloDeNegocio(c) =>
           Resultado(c).errorCode = IdDeclarado(llamadas[c].respuesta.data)
      /\ llamadas[c].respuesta.clase = "error" =>
           Resultado(c).errorCode = llamadas[c].respuesta.status

\* one call ended on a non-2xx response, another on a business error
C5_Testigo ==
  \E c, d \in Llamadas :
    /\ Terminada(c) /\ llamadas[c].respuesta.clase = "error"
    /\ Resultado(c).errorCode = Num(500)
    /\ FalloDeNegocio(d) /\ Resultado(d).errorCode = Num(9)

\* C7: registrarOrdenPago never throws: whatever the signing and transport
\* outcomes, the call ends with one returned result, which has success=false
\* when signing threw or the network call failed; a received error response
\* echoes the status and the body, a no-response failure carries neither.
C7_NuncaLanza ==
  \A c \in Llamadas :
    /\ ~Terminada(c) => llamadas[c].salida.tipo = "pending"
    /\ Terminada(c) =>
         /\ llamadas[c].salida.tipo = "return"
         /\ (~llamadas[c].llaveOk \/ PorCatch(c)) => Resultado(c).success = FALSE
         /\ ~llamadas[c].llaveOk => llamadas[c].respuesta.clase = "ninguna"
         /\ llamadas[c].respuesta.clase = "error" =>
              /\ Resultado(c).errorCode = llamadas[c].respuesta.status
              /\ Resultado(c).rawResponse = llamadas[c].respuesta.data
         /\ llamadas[c].respuesta.clase \in {"sin", "ninguna"} =>
              /\ "errorCode" \notin DOMAIN Resultado(c)
              /\ "rawResponse" \notin DOMAIN Resultado(c)

\* one call ended with no response, another on a signing failure
C7_Testigo ==
  \E c, d \in Llamadas :
    /\ Terminada(c) /\ llamadas[c].respuesta.clase = "sin"
    /\ Terminada(d) /\ ~llamadas[d].llaveOk
    /\ Resultado(c).success = FALSE /\ Resultado(d).success = FALSE

\* C8: an invocation issues at most one PUT: one when signing succeeds, after
\* the canonical string is built and signed and with the payload holding that
\* signature, none when signing fails; a failed network call is not retried
\* and ends the attempt with a failure result.
C8_UnSoloPut ==
  \A c \in Llamadas :
    /\ Len(peticiones[c]) <= 1
    /\ llamadas[c].pc = "idle" => Len(peticiones[c]) = 0
    /\ llamadas[c].pc /= "idle" =>
         Len(peticiones[c]) = (IF llamadas[c].llaveOk THEN 1 ELSE 0)
    /\ Len(peticiones[c]) = 1 =>
         /\ peticiones[c][1].metodo = "PUT"
         /\ peticiones[c][1].payload.firma = llamadas[c].firma
         /\ llamadas[c].firma =
              Str(<<"RSA-SHA256(">> \o llamadas[c].cadenaOriginal.s \o <<")">>)
         /\ peticiones[c][1].payload.claveRastreo = llamadas[c].orden.claveRastreo
    /\ (Terminada(c) /\ llamadas[c].respuesta.clase \in {"error", "sin"}) =>
         /\ llamadas[c].salida.tipo = "return"
         /\ Resultado(c).success = FALSE

\* a call whose network call failed has ended, with its one PUT on record
C8_Testigo ==
  \E c \in Llamadas :
    /\ Terminada(c) /\ llamadas[c].respuesta.clase = "sin"
    /\ Len(peticiones[c]) = 1

\* what a call returns, from its own order, the configuration, the outcome of
\* its own key read and its own response only
SalidaPropia(c) ==
  IF ~llamadas[c].llaveOk
  THEN TramoSincrono(svc, llamadas[c].orden, FALSE).salida
  ELSE IF llamadas[c].respuesta.clase = "ok"
  THEN TramoRespuesta(llamadas[c].respuesta.data,
                      construirCadenaOriginal(svc, llamadas[c].orden),
                      generarFirma(svc, construirCadenaOriginal(svc, llamadas[c].orden),
                                   TRUE).valor)
  ELSE ManejarError(ErrorAxios(llamadas[c].respuesta))

C9_SoloLoPropio ==
  \A c \in Llamadas :
    /\ llamadas[c].pc /= "idle" =>
         llamadas[c].cadenaOriginal = construirCadenaOriginal(svc, llamadas[c].orden)
    /\ llamadas[c].pc /= "idle" /\ llamadas[c].llaveOk =>
         /\ llamadas[c].firma =
              generarFirma(svc, llamadas[c].cadenaOriginal, TRUE).valor
         /\ llamadas[c].payload =
              construirPayload(svc, llamadas[c].orden, llamadas[c].firma)
         /\ peticiones[c] = PeticionesHttp(svc, llamadas[c].payload)
    /\ Terminada(c) => llamadas[c].salida = SalidaPropia(c)

\* C9: interleaved calls are independent: each call's canonical string,
\* signature, payload and result depend only on its own order, the shared
\* configuration and its own response; the configuration is never modified.
C9_Independencia == [](C9_SoloLoPropio /\ svc \in Configuraciones) /\ [][svc' = svc]_vars

\* a call has returned on its response while another call, for a different
\* order, is suspended at its network call
C9_Testigo ==
  \E c, d \in Llamadas :
    /\ c /= d
    /\ PorRespuesta(c)
    /\ llamadas[d].pc = "await"
    /\ llamadas[c].orden /= llamadas[d].orden

====
